---- MODULE Spec2Model ----
(***************************************************************************)
(* Model of the two asset generators of the repository:                    *)
(*   src/create_beautiful_icon.py  create_gradient, hex_to_rgb,            *)
(*                                 create_beautiful_app_icon               *)
(*   src/create_app_assets.py      create_feature_graphic                  *)
(*                                                                         *)
(* A run is chosen by prog: "icon" is one call of                          *)
(* create_beautiful_app_icon(), "feature" one call of                      *)
(* create_feature_graphic(), "gradient" one call of create_gradient with   *)
(* arguments drawn from bounded sets.  An image is a heap entry            *)
(* [mode, w, h]; what is drawn is recorded as the drawing calls of the     *)
(* last step (calls), with coordinates scaled by Scale so that the         *)
(* fractional coordinates of the bridge stay integers.                     *)
(***************************************************************************)
EXTENDS Integers, Sequences, FiniteSets, TLC

\* ------------------------------------------------------------ bounds
\* create_gradient is exercised for extents 2^0 .. 2^MaxLogExtent.  With a
\* power-of-two extent, ratio = i / extent, 1 - ratio and both products are
\* exact in binary floating point, so the float expression of the source
\* equals the rational one computed here.
MaxLogExtent == 3

\* ------------------------------------------------------------ arithmetic
max(a, b) == IF a >= b THEN a ELSE b

Extents == {2 ^ k : k \in 0..MaxLogExtent}

\* Coordinates are kept as multiples of 1/Scale: t = (i - 50) / 50 gives
\* t * t the denominator 50 * 50.
Scale == 50 * 50

\* An integer pixel coordinate pair, scaled.
P(x, y) == <<x * Scale, y * Scale>>

\* ------------------------------------------------------------ hex_to_rgb
HexDigits == <<"0", "1", "2", "3", "4", "5", "6", "7", "8", "9",
               "a", "b", "c", "d", "e", "f">>

\* int(d, 16) of one hexadecimal digit.
HexVal(d) == (CHOOSE k \in 1..16 : HexDigits[k] = d) - 1

\* str.lstrip('#') on a string given as a sequence of characters.
RECURSIVE lstrip(_)
lstrip(s) == IF s # <<>> /\ Head(s) = "#" THEN lstrip(Tail(s)) ELSE s

hex_to_rgb(hex_color) ==
    LET h == lstrip(hex_color)
    IN  <<16 * HexVal(h[1]) + HexVal(h[2]),
          16 * HexVal(h[3]) + HexVal(h[4]),
          16 * HexVal(h[5]) + HexVal(h[6])>>

\* "#0f172a" and "#1e293b"
DARK_SLATE_HEX == <<"#", "0", "f", "1", "7", "2", "a">>
DARK_BLUE_HEX == <<"#", "1", "e", "2", "9", "3", "b">>

\* ------------------------------------------------------------ constants
\* create_beautiful_app_icon
size == 512
center_x == size \div 2
center_y == size \div 2
glow_start == 220
glow_stop == 150
glow_step == 10
book_width == 180
book_height == 220
book_x == center_x - book_width \div 2
book_y == center_y - book_height \div 2 - 10
shadow_offset == 8
spine_width == 25
bridge_y == book_y + book_height + 40
\* support_positions = [0.25, 0.75], as numerators over PosDen
PosDen == 4
support_positions == <<1, 3>>
sparkle_positions_oob == <<<<100, 100>>, <<400, 80>>, <<150, 400>>, <<505, 420>>, <<80, 300>>>>
sparkle_positions == <<<<100, 100>>, <<400, 80>>, <<150, 400>>, <<450, 420>>, <<80, 300>>>>
mask_radius == 80
WHITE_RGB == <<255, 255, 255>>
\* create_feature_graphic
feature_w == 1024
feature_h == 500
book_colors == <<"#3b82f6", "#8b5cf6", "#10b981", "#f59e0b">>
features == <<"AI-Powered Text Simplification", "Professional Audio Narration",
              "Interactive Learning Tools">>

\* The components the specification names.
Order == <<"ColorUtility", "GradientRenderer", "GlowCompositor", "ShapeComposer",
           "CurveRenderer", "TextOverlay", "CornerMasker", "FileWriter">>

\* ------------------------------------------------------------ inputs
\* Colours given to create_gradient in the bounded runs: the two the icon
\* uses, black, white and the accent blue.
GradientColours == {<<15, 23, 42>>, <<30, 41, 59>>, <<0, 0, 0>>,
                    <<255, 255, 255>>, <<59, 130, 246>>}

\* Widths draw.textbbox may report for "BookBridge" and for the subtitle:
\* they depend on the font that was loaded (Helvetica or the default font).
TextWidths == {60, 155, 172}

\* Pixels observed through the corner mask, and what the canvas may hold there.
ProbeCoords == {0, 1, 23, 24, 79, 80, 81, 256, 431, 432, 433, 488, 489, 511}
CanvasColours == {<<15, 23, 42>>, <<251, 191, 36>>, <<255, 255, 255>>}

VARIABLES
    prog,           \* which routine this run calls
    pc,             \* position in the routine
    fontPresent,    \* the host has /System/Library/Fonts/Helvetica.ttc
    imgs,           \* heap of images: [mode, w, h]
    bg,             \* the working canvas (heap index, 0: unbound)
    draw,           \* image the ImageDraw object `draw` is bound to
    calls,          \* drawing calls made by the last step
    trace,          \* components in the order they started to run
    g_width, g_height, g_color1, g_color2, g_vertical, g_i, g_img,
    dark_slate, dark_blue,
    radius,         \* loop variable of the outer glow
    layers,         \* glow layers composited so far: [radius, alpha]
    i,              \* loop index of the current for loop
    bridge_points,
    font, small_font, text_x, sub_x,
    mask, output, final_img,
    probe,          \* one observed pixel through mask, output and final_img
    feature_y,
    files           \* files written by save

gvars == <<g_width, g_height, g_color1, g_color2, g_vertical, g_i, g_img>>
hexvars == <<dark_slate, dark_blue>>
glowvars == <<radius, layers>>
textvars == <<font, small_font, text_x, sub_x>>
maskvars == <<mask, output, final_img, probe>>
vars == <<prog, pc, fontPresent, imgs, bg, draw, calls, trace, gvars, hexvars,
          glowvars, i, bridge_points, textvars, maskvars, feature_y, files>>

\* ------------------------------------------------------------ helpers
Image(mode, w, h) == [mode |-> mode, w |-> w, h |-> h]

\* The trace after a step of component c.
Enter(c) == IF trace # <<>> /\ trace[Len(trace)] = c THEN trace ELSE Append(trace, c)

\* A drawing call: the component that made it, what it draws, the primitive,
\* the image drawn on, the coordinates (scaled) and the values it was given.
Call(c, what, op, img, pts, arg) ==
    [comp |-> c, what |-> what, op |-> op, img |-> img, pts |-> pts, arg |-> arg]

NoProbe == [xy |-> <<0, 0>>, canvas |-> <<0, 0, 0>>, m |-> 0,
            out |-> <<0, 0, 0, 0>>, fin |-> <<0, 0, 0>>]

Idle ==
    /\ fontPresent \in BOOLEAN
    /\ imgs = <<>> /\ bg = 0 /\ draw = 0 /\ calls = <<>> /\ trace = <<>>
    /\ dark_slate = <<0, 0, 0>> /\ dark_blue = <<0, 0, 0>>
    /\ radius = glow_start /\ layers = <<>>
    /\ i = 0 /\ bridge_points = <<>>
    /\ font = "none" /\ small_font = "none" /\ text_x = 0 /\ sub_x = 0
    /\ mask = 0 /\ output = 0 /\ final_img = 0 /\ probe = NoProbe
    /\ feature_y = 0 /\ files = <<>>

NoGradient ==
    /\ g_width = 0 /\ g_height = 0 /\ g_color1 = <<0, 0, 0>> /\ g_color2 = <<0, 0, 0>>
    /\ g_vertical = TRUE /\ g_i = 0 /\ g_img = 0

Init ==
    /\ Idle
    /\ \/ prog = "icon" /\ pc = "hex" /\ NoGradient
       \/ prog = "feature" /\ pc = "f_new" /\ NoGradient
       \/ /\ prog = "gradient" /\ pc = "g_new"
          /\ g_width \in Extents /\ g_height \in Extents
          /\ g_color1 \in GradientColours /\ g_color2 \in GradientColours
          /\ g_vertical \in BOOLEAN
          /\ g_i = 0 /\ g_img = 0

\* ------------------------------------------------------------ create_gradient
\* for i in range(height if vertical else width)
Extent == IF g_vertical THEN g_height ELSE g_width

\* int(c1 * (1 - ratio) + c2 * ratio) with ratio = i / extent: the operands
\* are non-negative, so int() is the floor of the exact value.
InterpChannelRounded(c1, c2, k, extent) ==
    (2 * (c1 * (extent - k) + c2 * k) + extent) \div (2 * extent)
InterpChannel(c1, c2, k, extent) ==
    (c1 * (extent - k) + c2 * k) \div extent

\* img = Image.new('RGB', (width, height)); draw = ImageDraw.Draw(img)
GradientNew ==
    /\ pc = "g_new"
    /\ imgs' = Append(imgs, Image("RGB", g_width, g_height))
    /\ g_img' = Len(imgs) + 1
    /\ g_i' = 0
    /\ calls' = <<>>
    /\ trace' = Enter("GradientRenderer")
    /\ pc' = "g_loop"
    /\ UNCHANGED <<prog, fontPresent, bg, draw, g_width, g_height, g_color1, g_color2,
                   g_vertical, hexvars, glowvars, i, bridge_points, textvars, maskvars,
                   feature_y, files>>

\* One iteration of the loop: the colour of row (column) i and its line.
GradientRow ==
    /\ pc = "g_loop"
    /\ g_i < Extent
    /\ LET fill == <<InterpChannel(g_color1[1], g_color2[1], g_i, Extent),
                     InterpChannel(g_color1[2], g_color2[2], g_i, Extent),
                     InterpChannel(g_color1[3], g_color2[3], g_i, Extent)>>
           pts == IF g_vertical THEN <<P(0, g_i), P(g_width, g_i)>>
                                ELSE <<P(g_i, 0), P(g_i, g_height)>>
       IN  calls' = <<Call("GradientRenderer", "gradient", "line", g_img, pts,
                            <<g_i, fill>>)>>
    /\ g_i' = g_i + 1
    /\ trace' = Enter("GradientRenderer")
    /\ UNCHANGED <<prog, pc, fontPresent, imgs, bg, draw, g_width, g_height, g_color1,
                   g_color2, g_vertical, g_img, hexvars, glowvars, i, bridge_points,
                   textvars, maskvars, feature_y, files>>

\* return img; in the icon: bg = create_gradient(...); draw = ImageDraw.Draw(bg)
GradientReturn ==
    /\ pc = "g_loop"
    /\ g_i >= Extent
    /\ calls' = <<>>
    /\ IF prog = "icon"
       THEN bg' = g_img /\ draw' = g_img /\ pc' = "glow" /\ radius' = glow_start
       ELSE pc' = "done" /\ UNCHANGED <<bg, draw, radius>>
    /\ UNCHANGED <<prog, fontPresent, imgs, trace, gvars, hexvars, layers, i,
                   bridge_points, textvars, maskvars, feature_y, files>>

\* ------------------------------------------------------------ create_beautiful_app_icon
\* dark_slate = hex_to_rgb("#0f172a"); dark_blue = hex_to_rgb("#1e293b")
HexToRgb ==
    /\ prog = "icon" /\ pc = "hex"
    /\ dark_slate' = hex_to_rgb(DARK_SLATE_HEX)
    /\ dark_blue' = hex_to_rgb(DARK_BLUE_HEX)
    /\ trace' = Enter("ColorUtility")
    /\ calls' = <<>>
    /\ pc' = "call_gradient"
    /\ UNCHANGED <<prog, fontPresent, imgs, bg, draw, gvars, glowvars, i, bridge_points,
                   textvars, maskvars, feature_y, files>>

\* bg = create_gradient(size, size, dark_slate, dark_blue, vertical=True)
CallGradient ==
    /\ prog = "icon" /\ pc = "call_gradient"
    /\ g_width' = size /\ g_height' = size
    /\ g_color1' = dark_slate /\ g_color2' = dark_blue
    /\ g_vertical' = TRUE
    /\ calls' = <<>>
    /\ pc' = "g_new"
    /\ UNCHANGED <<prog, fontPresent, imgs, bg, draw, trace, g_i, g_img, hexvars,
                   glowvars, i, bridge_points, textvars, maskvars, feature_y, files>>

\* alpha = max(5, 30 - (220 - radius) // 10)
GlowAlphaRising(r) == max(5, 24 + (220 - r) \div 10)
GlowAlphaSteep(r) == max(5, 30 - (220 - r) \div 2)
GlowAlpha(r) == max(5, 30 - (220 - r) \div 10)

\* Image.alpha_composite(im1, im2) raises ValueError unless both images are
\* RGBA and of the same size.
CanComposite(a, b) ==
    /\ a.mode = "RGBA" /\ b.mode = "RGBA"
    /\ a.w = b.w /\ a.h = b.h

\* One iteration of `for radius in range(220, 150, -10)`: a new transparent
\* overlay, one ellipse on it, and the canvas rebound to the composite
\* converted back to RGB.
GlowStep ==
    /\ prog = "icon" /\ pc = "glow"
    /\ radius > glow_stop
    /\ LET alpha == GlowAlpha(radius)
           overlay == Image("RGBA", size, size)
           rgba == [imgs[bg] EXCEPT !.mode = "RGBA"]
           n == Len(imgs)
       IN  /\ calls' = <<Call("GlowCompositor", "glow", "ellipse", n + 1,
                              <<P(center_x - radius, center_y - radius),
                                P(center_x + radius, center_y + radius)>>,
                              <<59, 130, 246, alpha>>)>>
           /\ IF CanComposite(rgba, overlay)
              THEN /\ imgs' = imgs \o <<overlay, rgba, rgba, [rgba EXCEPT !.mode = "RGB"]>>
                   /\ bg' = n + 4
                   /\ layers' = Append(layers, [radius |-> radius, alpha |-> alpha])
                   /\ radius' = radius - glow_step
                   /\ pc' = "glow"
              ELSE /\ imgs' = imgs \o <<overlay, rgba>>
                   /\ pc' = "raised"
                   /\ UNCHANGED <<bg, layers, radius>>
    /\ trace' = Enter("GlowCompositor")
    /\ UNCHANGED <<prog, fontPresent, draw, gvars, hexvars, i, bridge_points, textvars,
                   maskvars, feature_y, files>>

\* draw = ImageDraw.Draw(bg), after the loop
RebindDrawStale ==
    /\ prog = "icon" /\ pc = "glow"
    /\ radius <= glow_stop
    /\ calls' = <<>>
    /\ pc' = "book"
    /\ UNCHANGED <<prog, fontPresent, imgs, bg, draw, trace, gvars, hexvars, glowvars, i,
                   bridge_points, textvars, maskvars, feature_y, files>>
RebindDraw ==
    /\ prog = "icon" /\ pc = "glow"
    /\ radius <= glow_stop
    /\ draw' = bg
    /\ calls' = <<>>
    /\ pc' = "book"
    /\ UNCHANGED <<prog, fontPresent, imgs, bg, trace, gvars, hexvars, glowvars, i,
                   bridge_points, textvars, maskvars, feature_y, files>>

\* Book shadow, body, spine and spine highlight: four rectangles.
BookShapes ==
    /\ prog = "icon" /\ pc = "book"
    /\ calls' =
         <<Call("ShapeComposer", "shadow", "rectangle", draw,
                <<P(book_x + shadow_offset, book_y + shadow_offset),
                  P(book_x + book_width + shadow_offset,
                    book_y + book_height + shadow_offset)>>, "#000000"),
           Call("ShapeComposer", "body", "rectangle", draw,
                <<P(book_x, book_y), P(book_x + book_width, book_y + book_height)>>,
                "#3b82f6"),
           Call("ShapeComposer", "spine", "rectangle", draw,
                <<P(book_x, book_y), P(book_x + spine_width, book_y + book_height)>>,
                "#2563eb"),
           Call("ShapeComposer", "highlight", "rectangle", draw,
                <<P(book_x + 3, book_y + 3),
                  P(book_x + spine_width - 3, book_y + book_height - 3)>>, "#3b82f6")>>
    /\ trace' = Enter("ShapeComposer")
    /\ i' = 0
    /\ pc' = "pages"
    /\ UNCHANGED <<prog, fontPresent, imgs, bg, draw, gvars, hexvars, glowvars,
                   bridge_points, textvars, maskvars, feature_y, files>>

\* for i in range(3): one page-edge rectangle; after the loop, bridge_points = []
PageEdge ==
    /\ prog = "icon" /\ pc = "pages"
    /\ IF i < 3
       THEN LET offset == i * 3
            IN  /\ calls' = <<Call("ShapeComposer", "page", "rectangle", draw,
                                   <<P(book_x + book_width - offset, book_y + offset),
                                     P(book_x + book_width - offset + 2,
                                       book_y + book_height + offset)>>, "#f8fafc")>>
                /\ trace' = Enter("ShapeComposer")
                /\ i' = i + 1
                /\ UNCHANGED <<pc, bridge_points>>
       ELSE /\ calls' = <<>>
            /\ bridge_points' = <<>>
            /\ i' = 0
            /\ pc' = "points"
            /\ UNCHANGED trace
    /\ UNCHANGED <<prog, fontPresent, imgs, bg, draw, gvars, hexvars, glowvars, textvars,
                   maskvars, feature_y, files>>

\* The sample i of the arc, scaled by Scale = 50 * 50:
\*   x = book_x - 40 + i * (book_width + 80) / 100
\*   t = (i - 50) / 50;  y = bridge_y - 30 * (1 - t * t)
BridgeSampleSkewed(k) ==
    <<(book_x - 40) * Scale + k * (book_width + 80) * (Scale \div 100),
      bridge_y * Scale - 30 * (Scale - (k - 49) * (k - 49))>>
BridgeSample(k) ==
    <<(book_x - 40) * Scale + k * (book_width + 80) * (Scale \div 100),
      bridge_y * Scale - 30 * (Scale - (k - 50) * (k - 50))>>

\* for i in range(101): bridge_points.append((x, y))
BridgePoint ==
    /\ prog = "icon" /\ pc = "points"
    /\ IF i < 101
       THEN /\ bridge_points' = Append(bridge_points, BridgeSample(i))
            /\ trace' = Enter("CurveRenderer")
            /\ i' = i + 1
            /\ UNCHANGED pc
       ELSE /\ i' = 0
            /\ pc' = "segments"
            /\ UNCHANGED <<bridge_points, trace>>
    /\ calls' = <<>>
    /\ UNCHANGED <<prog, fontPresent, imgs, bg, draw, gvars, hexvars, glowvars, textvars,
                   maskvars, feature_y, files>>

\* int(8 + 4 * math.sin(i * math.pi / len(bridge_points))) for i in 0..99 and
\* 101 points: the value of the expression, by the ranges of i it is constant on.
thickness(k) ==
    IF k \in 28..73 THEN 11
    ELSE IF k \in 17..27 \/ k \in 74..84 THEN 10
    ELSE IF k \in 9..16 \/ k \in 85..92 THEN 9
    ELSE 8

\* for i in range(len(bridge_points) - 1): one segment of the arc
BridgeSegment ==
    /\ prog = "icon" /\ pc = "segments"
    /\ IF i < Len(bridge_points) - 1
       THEN /\ calls' = <<Call("CurveRenderer", "segment", "line", draw,
                               <<bridge_points[i + 1], bridge_points[i + 2]>>,
                               thickness(i))>>
            /\ trace' = Enter("CurveRenderer")
            /\ i' = i + 1
            /\ UNCHANGED pc
       ELSE /\ calls' = <<>>
            /\ i' = 1
            /\ pc' = "supports"
            /\ UNCHANGED trace
    /\ UNCHANGED <<prog, fontPresent, imgs, bg, draw, gvars, hexvars, glowvars,
                   bridge_points, textvars, maskvars, feature_y, files>>

\* x = book_x - 40 + pos * (book_width + 80), scaled; pos = q / PosDen
SupportX(q) == (book_x - 40) * Scale + (q * (book_width + 80) * Scale) \div PosDen

\* y = bridge_y - 30 * (1 - (pos - 0.5) * 2) ** 2, scaled.  ** binds tighter
\* than *, so what is squared is 1 - (pos - 0.5) * 2, which for pos = q / PosDen
\* is (2 * PosDen - 2 * q) / PosDen.
SupportTop(q) ==
    bridge_y * Scale
      - (30 * Scale * (2 * PosDen - 2 * q) * (2 * PosDen - 2 * q)) \div (PosDen * PosDen)

\* for pos in support_positions: the strut and its base
BridgeSupportThenSparkles ==
    /\ prog = "icon" /\ pc = "supports"
    /\ IF i <= Len(support_positions)
       THEN LET q == support_positions[i]
                x == SupportX(q)
                y == SupportTop(q)
            IN  /\ calls' = <<Call("CurveRenderer", "strut", "line", draw,
                                   <<<<x, y>>, <<x, (bridge_y + 30) * Scale>>>>, q),
                              Call("CurveRenderer", "base", "ellipse", draw,
                                   <<<<x - 8 * Scale, (bridge_y + 25) * Scale>>,
                                     <<x + 8 * Scale, (bridge_y + 35) * Scale>>>>, q)>>
                /\ trace' = Enter("CurveRenderer")
                /\ i' = i + 1
                /\ UNCHANGED pc
       ELSE /\ calls' = <<>>
            /\ i' = 1
            /\ pc' = "sparkles"
            /\ UNCHANGED trace
    /\ UNCHANGED <<prog, fontPresent, imgs, bg, draw, gvars, hexvars, glowvars,
                   bridge_points, textvars, maskvars, feature_y, files>>
BridgeSupport ==
    /\ prog = "icon" /\ pc = "supports"
    /\ IF i <= Len(support_positions)
       THEN LET q == support_positions[i]
                x == SupportX(q)
                y == SupportTop(q)
            IN  /\ calls' = <<Call("CurveRenderer", "strut", "line", draw,
                                   <<<<x, y>>, <<x, (bridge_y + 30) * Scale>>>>, q),
                              Call("CurveRenderer", "base", "ellipse", draw,
                                   <<<<x - 8 * Scale, (bridge_y + 25) * Scale>>,
                                     <<x + 8 * Scale, (bridge_y + 35) * Scale>>>>, q)>>
                /\ trace' = Enter("CurveRenderer")
                /\ i' = i + 1
                /\ UNCHANGED pc
       ELSE /\ calls' = <<>>
            /\ i' = 0
            /\ pc' = "fonts"
            /\ UNCHANGED trace
    /\ UNCHANGED <<prog, fontPresent, imgs, bg, draw, gvars, hexvars, glowvars,
                   bridge_points, textvars, maskvars, feature_y, files>>

\* try: font = truetype(Helvetica, 32); small_font = truetype(Helvetica, 18)
\* except: both are ImageFont.load_default()
LoadFonts ==
    /\ prog = "icon" /\ pc = "fonts"
    /\ IF fontPresent
       THEN font' = "Helvetica32" /\ small_font' = "Helvetica18"
       ELSE font' = "default" /\ small_font' = "default"
    /\ trace' = Enter("TextOverlay")
    /\ calls' = <<>>
    /\ pc' = "title"
    /\ UNCHANGED <<prog, fontPresent, imgs, bg, draw, gvars, hexvars, glowvars, i,
                   bridge_points, text_x, sub_x, maskvars, feature_y, files>>

\* book_x + spine_width + (book_width - spine_width - width) // 2
CenterOnCover(width) == book_x + spine_width + (book_width - spine_width - width) \div 2

text_y == book_y + 60
sub_y == text_y + 50

\* "BookBridge": measured, then drawn twice (shadow at +2, +2)
TitleText ==
    /\ prog = "icon" /\ pc = "title"
    /\ \E text_width \in TextWidths :
         /\ text_x' = CenterOnCover(text_width)
         /\ calls' = <<Call("TextOverlay", "title shadow", "text", draw,
                            <<P(CenterOnCover(text_width) + 2, text_y + 2)>>, font),
                       Call("TextOverlay", "title", "text", draw,
                            <<P(CenterOnCover(text_width), text_y)>>, font)>>
    /\ trace' = Enter("TextOverlay")
    /\ pc' = "subtitle"
    /\ UNCHANGED <<prog, fontPresent, imgs, bg, draw, gvars, hexvars, glowvars, i,
                   bridge_points, font, small_font, sub_x, maskvars, feature_y, files>>

\* The subtitle: measured, then drawn twice (shadow at +1, +1)
SubtitleText ==
    /\ prog = "icon" /\ pc = "subtitle"
    /\ \E sub_width \in TextWidths :
         /\ sub_x' = CenterOnCover(sub_width)
         /\ calls' = <<Call("TextOverlay", "subtitle shadow", "text", draw,
                            <<P(CenterOnCover(sub_width) + 1, sub_y + 1)>>, small_font),
                       Call("TextOverlay", "subtitle", "text", draw,
                            <<P(CenterOnCover(sub_width), sub_y)>>, small_font)>>
    /\ trace' = Enter("TextOverlay")
    /\ i' = 1
    /\ pc' = "sparkles"
    /\ UNCHANGED <<prog, fontPresent, imgs, bg, draw, gvars, hexvars, glowvars,
                   bridge_points, font, small_font, text_x, maskvars, feature_y, files>>

\* The eight points of the four-pointed star at (x, y).
StarPoints(x, y) ==
    <<P(x, y - 12), P(x + 4, y - 4), P(x + 12, y), P(x + 4, y + 4),
      P(x, y + 12), P(x - 4, y + 4), P(x - 12, y), P(x - 4, y - 4)>>

\* for x, y in sparkle_positions: draw.polygon(points, fill=gold)
Sparkle ==
    /\ prog = "icon" /\ pc = "sparkles"
    /\ IF i <= Len(sparkle_positions)
       THEN /\ calls' = <<Call("ShapeComposer", "sparkle", "polygon", draw,
                               StarPoints(sparkle_positions[i][1], sparkle_positions[i][2]),
                               "#fbbf24")>>
            /\ trace' = Enter("ShapeComposer")
            /\ i' = i + 1
            /\ UNCHANGED pc
       ELSE /\ calls' = <<>>
            /\ i' = 0
            /\ pc' = "mask"
            /\ UNCHANGED trace
    /\ UNCHANGED <<prog, fontPresent, imgs, bg, draw, gvars, hexvars, glowvars,
                   bridge_points, textvars, maskvars, feature_y, files>>

\* ImageDraw.rounded_rectangle([(x0, y0), (x1, y1)], radius): the pixels of the
\* box whose nearest point of the box shrunk by the radius is at most the radius
\* away (the straight sides in full, a quarter disk in each corner).
InRoundedRectangle(x, y, x0, y0, x1, y1, r) ==
    LET cx == IF x < x0 + r THEN x0 + r ELSE IF x > x1 - r THEN x1 - r ELSE x
        cy == IF y < y0 + r THEN y0 + r ELSE IF y > y1 - r THEN y1 - r ELSE y
    IN  /\ x0 <= x /\ x <= x1 /\ y0 <= y /\ y <= y1
        /\ (x - cx) * (x - cx) + (y - cy) * (y - cy) <= r * r

\* mask_draw.rounded_rectangle([(0, 0), (size, size)], radius=80, fill=255) on
\* a mask filled with 0: the value of the mask at pixel xy.
MaskValue(xy) ==
    IF InRoundedRectangle(xy[1], xy[2], 0, 0, size, size, mask_radius) THEN 255 ELSE 0

\* mask = Image.new('L', (size, size), 0) and the rounded rectangle drawn on it.
\* From here on one pixel of the canvas is followed: probe.
MaskDraw ==
    /\ prog = "icon" /\ pc = "mask"
    /\ imgs' = Append(imgs, Image("L", size, size))
    /\ mask' = Len(imgs) + 1
    /\ calls' = <<Call("CornerMasker", "mask", "rounded_rectangle", Len(imgs) + 1,
                       <<P(0, 0), P(size, size)>>, mask_radius)>>
    /\ \E x \in ProbeCoords, y \in ProbeCoords, c \in CanvasColours :
         probe' = [NoProbe EXCEPT !.xy = <<x, y>>, !.canvas = c, !.m = MaskValue(<<x, y>>)]
    /\ trace' = Enter("CornerMasker")
    /\ pc' = "output"
    /\ UNCHANGED <<prog, fontPresent, bg, draw, gvars, hexvars, glowvars, i,
                   bridge_points, textvars, output, final_img, feature_y, files>>

\* output = Image.new('RGBA', (size, size), (0, 0, 0, 0)); output.paste(bg, (0, 0)):
\* the RGB pixel is stored opaque.
OutputPaste ==
    /\ prog = "icon" /\ pc = "output"
    /\ imgs' = Append(imgs, Image("RGBA", size, size))
    /\ output' = Len(imgs) + 1
    /\ probe' = [probe EXCEPT !.out = IF probe.xy[1] < imgs[bg].w /\ probe.xy[2] < imgs[bg].h
                                      THEN probe.canvas \o <<255>>
                                      ELSE <<0, 0, 0, 0>>]
    /\ trace' = Enter("CornerMasker")
    /\ calls' = <<>>
    /\ pc' = "putalpha"
    /\ UNCHANGED <<prog, fontPresent, bg, draw, gvars, hexvars, glowvars, i,
                   bridge_points, textvars, mask, final_img, feature_y, files>>

\* Image.putalpha(alpha) on one pixel: the alpha band is replaced.
putalpha_keep(px, a) == px
putalpha(px, a) == <<px[1], px[2], px[3], a>>

\* output.putalpha(mask): raises ValueError unless the mask has the size of
\* the image.
PutAlpha ==
    /\ prog = "icon" /\ pc = "putalpha"
    /\ IF imgs[mask].w = imgs[output].w /\ imgs[mask].h = imgs[output].h
       THEN /\ probe' = [probe EXCEPT !.out = putalpha(probe.out, probe.m)]
            /\ pc' = "final"
       ELSE /\ pc' = "raised"
            /\ UNCHANGED probe
    /\ trace' = Enter("CornerMasker")
    /\ calls' = <<>>
    /\ UNCHANGED <<prog, fontPresent, imgs, bg, draw, gvars, hexvars, glowvars, i,
                   bridge_points, textvars, mask, output, final_img, feature_y, files>>

\* Image.paste(im, box, mask) on one channel of one pixel: dst and src blended
\* by the mask value a, (dst * (255 - a) + src * a) / 255 rounded.
Blend(a, dst, src) ==
    LET tmp == dst * (255 - a) + src * a + 128
    IN  ((tmp \div 256) + tmp) \div 256

\* final_img = Image.new('RGB', (size, size), 'white');
\* final_img.paste(output, (0, 0), output): the alpha band of output is the mask.
FinalPaste ==
    /\ prog = "icon" /\ pc = "final"
    /\ imgs' = Append(imgs, Image("RGB", size, size))
    /\ final_img' = Len(imgs) + 1
    /\ probe' = [probe EXCEPT !.fin = <<Blend(probe.out[4], WHITE_RGB[1], probe.out[1]),
                                        Blend(probe.out[4], WHITE_RGB[2], probe.out[2]),
                                        Blend(probe.out[4], WHITE_RGB[3], probe.out[3])>>]
    /\ trace' = Enter("CornerMasker")
    /\ calls' = <<>>
    /\ pc' = "save"
    /\ UNCHANGED <<prog, fontPresent, bg, draw, gvars, hexvars, glowvars, i,
                   bridge_points, textvars, mask, output, feature_y, files>>

\* final_img.save('beautiful_app_icon_512x512.png', 'PNG', quality=95)
SaveIcon ==
    /\ prog = "icon" /\ pc = "save"
    /\ files' = Append(files, [name |-> "beautiful_app_icon_512x512.png",
                               mode |-> imgs[final_img].mode,
                               w |-> imgs[final_img].w, h |-> imgs[final_img].h])
    /\ trace' = Enter("FileWriter")
    /\ calls' = <<>>
    /\ pc' = "done"
    /\ UNCHANGED <<prog, fontPresent, imgs, bg, draw, gvars, hexvars, glowvars, i,
                   bridge_points, textvars, maskvars, feature_y>>

\* ------------------------------------------------------------ create_feature_graphic
\* img = Image.new('RGB', (1024, 500), DARK_SLATE); draw = ImageDraw.Draw(img)
FeatureNew ==
    /\ prog = "feature" /\ pc = "f_new"
    /\ imgs' = Append(imgs, Image("RGB", feature_w, feature_h))
    /\ bg' = Len(imgs) + 1
    /\ draw' = Len(imgs) + 1
    /\ i' = 0
    /\ calls' = <<>>
    /\ pc' = "f_books"
    /\ UNCHANGED <<prog, fontPresent, trace, gvars, hexvars, glowvars, bridge_points,
                   textvars, maskvars, feature_y, files>>

\* for i, color in enumerate(book_colors): one book rectangle
FeatureBook ==
    /\ prog = "feature" /\ pc = "f_books"
    /\ IF i < Len(book_colors)
       THEN LET x == 50 + i * 40
                y == 150 + i * 10
            IN  /\ calls' = <<Call("feature", "book", "rectangle", draw,
                                   <<P(x, y), P(x + 30, y + 200)>>, book_colors[i + 1])>>
                /\ i' = i + 1
                /\ UNCHANGED pc
       ELSE /\ calls' = <<>>
            /\ i' = 0
            /\ pc' = "f_fonts"
    /\ UNCHANGED <<prog, fontPresent, imgs, bg, draw, trace, gvars, hexvars, glowvars,
                   bridge_points, textvars, maskvars, feature_y, files>>

\* ImageFont.truetype(path, size): raises OSError when the file cannot be opened.
truetype(pointsize) == IF fontPresent THEN <<"Helvetica", pointsize>> ELSE "OSError"

\* try: title_font = truetype(.., 80); subtitle_font = truetype(.., 36)
\* except: both are ImageFont.load_default()
FeatureFonts ==
    /\ prog = "feature" /\ pc = "f_fonts"
    /\ IF truetype(80) # "OSError" /\ truetype(36) # "OSError"
       THEN font' = truetype(80) /\ small_font' = truetype(36)
       ELSE font' = "default" /\ small_font' = "default"
    /\ calls' = <<>>
    /\ pc' = "f_text"
    /\ UNCHANGED <<prog, fontPresent, imgs, bg, draw, trace, gvars, hexvars, glowvars, i,
                   bridge_points, text_x, sub_x, maskvars, feature_y, files>>

\* The title and the tagline; feature_y = 320
FeatureText ==
    /\ prog = "feature" /\ pc = "f_text"
    /\ calls' = <<Call("feature", "title", "text", draw, <<P(350, 150)>>, font),
                  Call("feature", "tagline", "text", draw, <<P(350, 250)>>, small_font)>>
    /\ feature_y' = 320
    /\ i' = 1
    /\ pc' = "f_features"
    /\ UNCHANGED <<prog, fontPresent, imgs, bg, draw, trace, gvars, hexvars, glowvars,
                   bridge_points, textvars, maskvars, files>>

\* for feature in features: the bullet, then the text in a font loaded in
\* place by ImageFont.truetype(.., 24), outside any try: an OSError leaves the
\* routine.
FeatureLine ==
    /\ prog = "feature" /\ pc = "f_features"
    /\ IF i <= Len(features)
       THEN LET bullet == Call("feature", "bullet", "ellipse", draw,
                               <<P(350, feature_y), P(360, feature_y + 10)>>, "#3b82f6")
            IN  IF truetype(24) = "OSError"
                THEN /\ calls' = <<bullet>>
                     /\ pc' = "raised"
                     /\ UNCHANGED <<i, feature_y>>
                ELSE /\ calls' = <<bullet,
                                   Call("feature", features[i], "text", draw,
                                        <<P(380, feature_y - 5)>>, truetype(24))>>
                     /\ feature_y' = feature_y + 40
                     /\ i' = i + 1
                     /\ UNCHANGED pc
       ELSE /\ calls' = <<>>
            /\ pc' = "f_arc"
            /\ UNCHANGED <<i, feature_y>>
    /\ UNCHANGED <<prog, fontPresent, imgs, bg, draw, trace, gvars, hexvars, glowvars,
                   bridge_points, textvars, maskvars, files>>

\* bridge_x = 800; bridge_y = 250; draw.arc(...)
FeatureArc ==
    /\ prog = "feature" /\ pc = "f_arc"
    /\ calls' = <<Call("feature", "bridge", "arc", draw,
                       <<P(800, 250 - 100), P(800 + 150, 250 + 100)>>, "#3b82f6")>>
    /\ pc' = "f_save"
    /\ UNCHANGED <<prog, fontPresent, imgs, bg, draw, trace, gvars, hexvars, glowvars, i,
                   bridge_points, textvars, maskvars, feature_y, files>>

\* img.save('feature_graphic_1024x500.png', 'PNG', quality=95)
FeatureSave ==
    /\ prog = "feature" /\ pc = "f_save"
    /\ files' = Append(files, [name |-> "feature_graphic_1024x500.png",
                               mode |-> imgs[bg].mode, w |-> imgs[bg].w, h |-> imgs[bg].h])
    /\ calls' = <<>>
    /\ pc' = "done"
    /\ UNCHANGED <<prog, fontPresent, imgs, bg, draw, trace, gvars, hexvars, glowvars, i,
                   bridge_points, textvars, maskvars, feature_y>>

Next ==
    \/ GradientNew
    \/ GradientRow
    \/ GradientReturn
    \/ HexToRgb
    \/ CallGradient
    \/ GlowStep
    \/ RebindDraw
    \/ BookShapes
    \/ PageEdge
    \/ BridgePoint
    \/ BridgeSegment
    \/ BridgeSupport
    \/ LoadFonts
    \/ TitleText
    \/ SubtitleText
    \/ Sparkle
    \/ MaskDraw
    \/ OutputPaste
    \/ PutAlpha
    \/ FinalPaste
    \/ SaveIcon
    \/ FeatureNew
    \/ FeatureBook
    \/ FeatureFonts
    \/ FeatureText
    \/ FeatureLine
    \/ FeatureArc
    \/ FeatureSave

Spec == Init /\ [][Next]_vars

\* ------------------------------------------------------------ properties
Range(f) == {f[k] : k \in DOMAIN f}

min(a, b) == IF a <= b THEN a ELSE b

\* The calls of the last step that draw what.
CallsOf(what) == {c \in Range(calls) : c.what = what}

IsPrefix(s, t) == Len(s) <= Len(t) /\ \A k \in 1..Len(s) : s[k] = t[k]

\* C1: create_feature_graphic never ends in an exception and, once it is
\* done, has saved one image of 1024 x 500 pixels, whether or not the font
\* file can be loaded.
C1_FeatureAlwaysSaves ==
    prog = "feature" =>
        /\ pc # "raised"
        /\ pc = "done" => /\ Len(files) = 1
                          /\ files[1].w = 1024 /\ files[1].h = 500

\* The exact value c1 * (1 - t) + c2 * t, t = k / extent, is num / extent.
InterpNum(c1, c2, k, extent) == c1 * (extent - k) + c2 * k

\* v = round(num / extent), Python's round: the nearest integer, a tie going
\* to the even one.
IsRounded(v, num, extent) ==
    /\ 2 * v * extent - extent <= 2 * num
    /\ 2 * num <= 2 * v * extent + extent
    /\ (2 * num = 2 * v * extent - extent \/ 2 * num = 2 * v * extent + extent)
          => v % 2 = 0

\* v = floor(num / extent)
IsFloor(v, num, extent) == v * extent <= num /\ num < (v + 1) * extent

\* The line of a gradient call is the row (column) k, from 0 to the width (height).
GradientLineAt(c, k) ==
    c.pts = IF g_vertical THEN <<P(0, k), P(g_width, k)>> ELSE <<P(k, 0), P(k, g_height)>>

\* C2 as stated: the colour written to row (column) i is, in every channel,
\* round(c1 * (1 - t) + c2 * t) with t = i / extent, within 0..255.
C2_GradientRounded ==
    \A c \in CallsOf("gradient") :
        LET k == c.arg[1]
            fill == c.arg[2]
        IN  /\ k = g_i - 1 /\ k \in 0..(Extent - 1)
            /\ GradientLineAt(c, k)
            /\ \A ch \in 1..3 :
                 /\ fill[ch] \in 0..255
                 /\ IsRounded(fill[ch], InterpNum(g_color1[ch], g_color2[ch], k, Extent),
                              Extent)

\* C2 amended: for an extent that is a power of two the colour written to row
\* (column) i is, in every channel, the floor of c1 * (1 - t) + c2 * t (int()
\* truncates), within 0..255.
C2_GradientTruncated ==
    \A c \in CallsOf("gradient") :
        LET k == c.arg[1]
            fill == c.arg[2]
        IN  /\ k = g_i - 1 /\ k \in 0..(Extent - 1)
            /\ GradientLineAt(c, k)
            /\ \A ch \in 1..3 :
                 /\ fill[ch] \in 0..255
                 /\ IsFloor(fill[ch], InterpNum(g_color1[ch], g_color2[ch], k, Extent),
                            Extent)

\* A horizontal gradient wrote a column whose exact red value has a fractional
\* part of at least one half: the floor written is not the rounded value.
C2_Witness ==
    /\ prog = "gradient" /\ ~g_vertical
    /\ \E c \in CallsOf("gradient") :
         /\ 2 * (InterpNum(g_color1[1], g_color2[1], c.arg[1], Extent) % Extent) > Extent
         /\ ~IsRounded(c.arg[2][1], InterpNum(g_color1[1], g_color2[1], c.arg[1], Extent),
                       Extent)

\* Every glow layer is a disk around the centre of the canvas, composited in
\* strictly descending radius order.
GlowDescending ==
    /\ \A j, k \in 1..Len(layers) : j < k => layers[j].radius > layers[k].radius
    /\ \A c \in CallsOf("glow") :
         /\ c.pts[1][1] < center_x * Scale /\ center_x * Scale < c.pts[2][1]
         /\ c.pts[1][2] < center_y * Scale /\ center_y * Scale < c.pts[2][2]
         /\ layers # <<>>
         /\ c.arg[4] = layers[Len(layers)].alpha

GlowDone == prog = "icon" /\ pc \notin {"hex", "call_gradient", "g_new", "g_loop", "glow"}

\* C3 as stated: the layers go from the largest and faintest first to the
\* smallest and most opaque last; the last layer has the highest alpha.
C3_FaintestFirst ==
    /\ GlowDescending
    /\ \A j, k \in 1..Len(layers) : j < k => layers[j].alpha <= layers[k].alpha
    /\ GlowDone => \A k \in 1..Len(layers) : layers[k].alpha <= layers[Len(layers)].alpha

\* C3 amended: the layers are composited in strictly descending radius order,
\* from the largest and most opaque first to the smallest and faintest last;
\* the layer drawn last on the centre pixel has the lowest alpha of the sequence.
C3_MostOpaqueFirst ==
    /\ GlowDescending
    /\ \A j, k \in 1..Len(layers) : j < k => layers[j].alpha > layers[k].alpha
    /\ GlowDone => /\ layers # <<>>
                   /\ \A k \in 1..Len(layers) :
                        layers[k].alpha >= layers[Len(layers)].alpha

\* The glow loop has finished: seven layers, the first more opaque than the last.
C3_Witness ==
    /\ GlowDone /\ pc = "book"
    /\ Len(layers) = 7
    /\ layers[1].alpha > layers[7].alpha

\* C4: each support strut starts on the sampled parabola, at the curve value
\* bridge_y - 30 * (1 - t * t) for t = -0.5 and t = 0.5, and runs vertically
\* down to the baseline bridge_y + 30.
C4_StrutsStartOnCurve ==
    \A c \in CallsOf("strut") :
        /\ c.pts[1] \in Range(bridge_points)
        /\ c.pts[1][2] = bridge_y * Scale - 30 * (Scale - Scale \div 4)
        /\ c.pts[2] = <<c.pts[1][1], (bridge_y + 30) * Scale>>

\* C5: the sampled bridge points are symmetric about the midpoint sample: the
\* samples k and 100 - k have the same y, and their x are mirror images about
\* the x of sample 50.
C5_BridgeSymmetric ==
    /\ \A k \in 1..Len(bridge_points) :
         102 - k \in 1..Len(bridge_points)
            => bridge_points[k][2] = bridge_points[102 - k][2]
    /\ Len(bridge_points) = 101 =>
         \A k \in 0..100 :
            /\ bridge_points[k + 1][2] = bridge_points[101 - k][2]
            /\ bridge_points[51][1] - bridge_points[k + 1][1]
                 = bridge_points[101 - k][1] - bridge_points[51][1]

\* All 101 points are sampled; the ends are level with each other and lie
\* below the midpoint sample (a larger y), left and right of it.
C5_Witness ==
    /\ pc = "segments" /\ Len(bridge_points) = 101
    /\ bridge_points[1][2] = bridge_points[101][2]
    /\ bridge_points[1][2] > bridge_points[51][2]
    /\ bridge_points[1][1] < bridge_points[51][1]
    /\ bridge_points[51][1] < bridge_points[101][1]

\* The pixel lies in the radius x radius square of a corner of the rounded
\* rectangle [(0, 0), (size, size)] and farther than the radius from the
\* centre of that corner's arc.
InCornerCut(xy) ==
    \E cx \in {mask_radius, size - mask_radius}, cy \in {mask_radius, size - mask_radius} :
        /\ IF cx = mask_radius THEN xy[1] < cx ELSE xy[1] > cx
        /\ IF cy = mask_radius THEN xy[2] < cy ELSE xy[2] > cy
        /\ (xy[1] - cx) * (xy[1] - cx) + (xy[2] - cy) * (xy[2] - cy)
             > mask_radius * mask_radius

\* The pixel is farther than the radius from all four corners of the image.
FarFromCorners(xy) ==
    \A cx \in {0, size - 1}, cy \in {0, size - 1} :
        (xy[1] - cx) * (xy[1] - cx) + (xy[2] - cy) * (xy[2] - cy)
          > mask_radius * mask_radius

\* C6: after the corner-mask step a pixel inside the rounded rectangle (in
\* particular one farther than the radius from all four corners) has the
\* colour of the canvas, a pixel in a corner's cut has the backing white, and
\* no pixel has any other value.
C6_CornerMask ==
    (prog = "icon" /\ pc \in {"save", "done"}) =>
        /\ ~InCornerCut(probe.xy) => probe.fin = probe.canvas
        /\ InCornerCut(probe.xy) => probe.fin = <<255, 255, 255>>
        /\ FarFromCorners(probe.xy) => ~InCornerCut(probe.xy)

\* The run is done; the pixel followed lies in a corner's cut, held another
\* colour than white on the canvas and is white in the final image.
C6_Witness ==
    /\ prog = "icon" /\ pc = "done"
    /\ InCornerCut(probe.xy)
    /\ probe.canvas # <<255, 255, 255>>
    /\ probe.fin = <<255, 255, 255>>

\* The order in which the components run in the code: the sparkles of
\* ShapeComposer come after TextOverlay.
ActualOrder == <<"ColorUtility", "GradientRenderer", "GlowCompositor", "ShapeComposer",
                 "CurveRenderer", "TextOverlay", "ShapeComposer", "CornerMasker",
                 "FileWriter">>

\* C7 as stated: the components run strictly forward in the order ColorUtility,
\* GradientRenderer, GlowCompositor, ShapeComposer, CurveRenderer, TextOverlay,
\* CornerMasker, file writer, each once and as one contiguous stage.
C7_StrictlyForward ==
    prog = "icon" =>
        /\ IsPrefix(trace, Order)
        /\ pc = "done" => trace = Order

\* C7 amended: the components run in the order ColorUtility, GradientRenderer,
\* GlowCompositor, ShapeComposer (the book), CurveRenderer, TextOverlay,
\* ShapeComposer (the sparkles), CornerMasker, file writer; every component
\* but ShapeComposer runs once as one contiguous stage, and ShapeComposer
\* runs in two stages, its sparkles drawn after CurveRenderer and TextOverlay.
C7_SparklesAfterText ==
    prog = "icon" =>
        /\ IsPrefix(trace, ActualOrder)
        /\ pc = "done" => trace = ActualOrder
        /\ CallsOf("sparkle") # {} => trace[Len(trace) - 1] = "TextOverlay"

\* A sparkle polygon is being drawn after the text.
C7_Witness ==
    /\ prog = "icon" /\ pc = "sparkles"
    /\ CallsOf("sparkle") # {}
    /\ Len(trace) = 7 /\ trace[6] = "TextOverlay" /\ trace[7] = "ShapeComposer"

\* The non-text drawing calls of the last step of the icon.
NonTextCalls == {c \in Range(calls) : c.op # "text"}

\* C8 as stated: every coordinate of a non-text drawing call of the icon is
\* within 0..width-1 and 0..height-1 of the image drawn on.
C8_AllWithinCanvas ==
    prog = "icon" =>
        \A c \in NonTextCalls : \A k \in DOMAIN c.pts :
            /\ 0 <= c.pts[k][1] /\ c.pts[k][1] <= (imgs[c.img].w - 1) * Scale
            /\ 0 <= c.pts[k][2] /\ c.pts[k][2] <= (imgs[c.img].h - 1) * Scale

\* C8 amended: every coordinate of a non-text drawing call of the icon is
\* within 0..width and 0..height; the only ones outside 0..width-1 and
\* 0..height-1 are the end (width, i) of each gradient line and the corner
\* (size, size) of the mask's rounded rectangle, one past the last pixel.
C8_WithinCanvasOrOnePast ==
    prog = "icon" =>
        \A c \in NonTextCalls : \A k \in DOMAIN c.pts :
            /\ 0 <= c.pts[k][1] /\ c.pts[k][1] <= imgs[c.img].w * Scale
            /\ 0 <= c.pts[k][2] /\ c.pts[k][2] <= imgs[c.img].h * Scale
            /\ c.pts[k][1] > (imgs[c.img].w - 1) * Scale
                 => /\ c.what \in {"gradient", "mask"} /\ k = 2
                    /\ c.pts[k][1] = imgs[c.img].w * Scale
            /\ c.pts[k][2] > (imgs[c.img].h - 1) * Scale
                 => /\ c.what = "mask" /\ k = 2
                    /\ c.pts[k][2] = imgs[c.img].h * Scale

\* The last sparkle polygon is drawn, all of its points inside the canvas.
C8_Witness ==
    /\ prog = "icon" /\ pc = "sparkles" /\ i = 6
    /\ \E c \in CallsOf("sparkle") :
         /\ Len(c.pts) = 8
         /\ \A k \in DOMAIN c.pts : c.pts[k][1] <= (size - 1) * Scale

\* C9: layer k of the glow loop has the radius 220 - 10 * (k - 1), down to
\* 160, and the alpha max(5, 30 - (k - 1)): the alpha never increases as the
\* radius shrinks, drops by exactly 1 per step while above the floor 5, and
\* is within 5..30.
C9_GlowAlpha ==
    /\ Len(layers) <= 7
    /\ \A k \in 1..Len(layers) :
         /\ layers[k].radius = 220 - 10 * (k - 1)
         /\ layers[k].radius >= 160
         /\ layers[k].alpha = max(5, 31 - k)
         /\ layers[k].alpha >= 5 /\ layers[k].alpha <= 30
         /\ k > 1 => /\ layers[k].alpha <= layers[k - 1].alpha
                     /\ layers[k - 1].alpha > 5 => layers[k].alpha = layers[k - 1].alpha - 1

\* The loop has run for every radius from 220 down to 160.
C9_Witness ==
    /\ prog = "icon" /\ pc = "glow" /\ radius <= glow_stop
    /\ Len(layers) = 7
    /\ layers[1] = [radius |-> 220, alpha |-> 30]
    /\ layers[7] = [radius |-> 160, alpha |-> 24]

\* An image of the heap is size x size.
IsSized(k, mode) == k # 0 => imgs[k] = [mode |-> mode, w |-> size, h |-> size]

\* C10: the working canvas is 512 x 512 and RGB after create_gradient, after
\* every iteration of the glow loop and after every later stage; the mask,
\* the RGBA output and the final image are 512 x 512; every drawing call after
\* the glow loop draws on the last composited canvas; no step raises.
C10_CanvasFixed ==
    prog = "icon" =>
        /\ pc # "raised"
        /\ IsSized(bg, "RGB") /\ IsSized(g_img, "RGB")
        /\ IsSized(mask, "L") /\ IsSized(output, "RGBA") /\ IsSized(final_img, "RGB")
        /\ \A c \in Range(calls) :
             c.comp \in {"ShapeComposer", "CurveRenderer", "TextOverlay"} => c.img = bg
        /\ \A k \in 1..Len(files) : files[k].w = 512 /\ files[k].h = 512
        /\ pc = "done" => Len(files) = 1 /\ files[1].mode = "RGB"

\* The icon is saved; the canvas drawn on was the last composite, not the
\* image create_gradient returned.
C10_Witness ==
    /\ prog = "icon" /\ pc = "done"
    /\ bg # g_img /\ draw = bg
    /\ Len(files) = 1
====
